---- MODULE Spec2Model ----
(***************************************************************************)
(* The webhook server of the Solidity audit agent (agent/server.py) and    *)
(* the auditor it calls (agent/services/auditor.py).                       *)
(*                                                                         *)
(* One asyncio event loop serves POST /webhook.  Every request adds one    *)
(* background task, process_notification, which runs after the response:   *)
(*   fetch_solidity_files (await GET)  ->  SolidityAuditor.audit_files     *)
(*   (a synchronous OpenAI call: the event loop is held while it waits)    *)
(*   ->  send_audit_results (await POST).                                  *)
(* An action of the model is the code that runs between two suspension     *)
(* points of a task.                                                       *)
(*                                                                         *)
(* Local mode (agent/local.py, chosen by agent/main.py) runs process_local *)
(* once instead: clone, find the .sol files (optionally asking which),     *)
(* audit_files, save_audit_results.  A run is in one mode or the other.    *)
(*                                                                         *)
(* server.py imports the name Audit from auditor.py, which defines         *)
(* AuditResponse: the model takes the module as loaded, with Audit the     *)
(* class audit_files returns.                                              *)
(***************************************************************************)
EXTENDS Integers, Sequences, FiniteSets, TLC

\* Bounds of the model.
MaxReqs == 2
MaxFindings == 1
MaxPrompts == 2

Reqs == 1..MaxReqs

None == "None"

(***************************************************************************)
(* Configuration.  config.py declares the fields of Settings; server.py    *)
(* reads config.agent4rena_api_key and config.webhook_secret, which        *)
(* Settings does not declare (it declares agent_arena_api_key and          *)
(* webhook_auth_token): on a Settings object both reads raise              *)
(* AttributeError.  start_server stores whatever object it is given, so    *)
(* the model also covers configuration objects that carry the two          *)
(* attributes server.py reads.                                             *)
(***************************************************************************)
SettingsFields ==
    {"openai_api_key", "openai_model", "agent_arena_api_key",
     "webhook_auth_token", "data_dir", "log_level", "log_file"}

Settings == [attrs |-> SettingsFields, webhook_secret |-> None]

Secrets == {"s1"}

Configs ==
    {Settings} \cup
    {[attrs |-> SettingsFields \cup {"agent4rena_api_key", "webhook_secret"},
      webhook_secret |-> s] : s \in Secrets}

HasAttr(cfg, a) == a \in cfg.attrs

\* Notification (server.py): task_id, get_contracts_url, post_findings_url.
\* Request r carries the notification of task r, with URLs of its own.
Notification(r) ==
    [task_id |-> <<"T", r>>, get_contracts_url |-> <<"U", r>>,
     post_findings_url |-> <<"V", r>>]

\* Values of the X-Webhook-Secret header (None: header absent).
Headers == {"s1", "s2"}

\* A Python value that may be None: [none |-> TRUE] is None.
NoneVal == [none |-> TRUE, v |-> <<>>]
Some(x) == [none |-> FALSE, v |-> x]

NoNotification ==
    [task_id |-> <<>>, get_contracts_url |-> <<>>, post_findings_url |-> <<>>]

NoResponse == [status |-> 0, body |-> [status |-> None, task_id |-> <<>>]]

(***************************************************************************)
(* The contracts endpoint.  A GET ends in a network error, an error        *)
(* status, a body that is not JSON, or a JSON array of {path, content}.    *)
(***************************************************************************)
\* The file `name` as the endpoint u serves it: every endpoint has contents
\* of its own.
File(name, u) == [path |-> name, content |-> <<name, u>>]

FileA(u) == File("A.sol", u)
FileB(u) == File("B.sol", u)

\* What u can answer with: an empty list, or the list of its two files.
Bodies(u) == {<<>>, <<FileA(u), FileB(u)>>}

GetResponses(u) ==
    {[kind |-> "network_error", body |-> <<>>],
     [kind |-> "http_error", body |-> <<>>],
     [kind |-> "bad_json", body |-> <<>>]}
    \cup {[kind |-> "ok", body |-> b] : b \in Bodies(u)}

\* fetch_solidity_files with response.json() outside the try.
fetch_solidity_files_unguarded(g) ==
    CASE g.kind = "ok" -> [value |-> Some(g.body), log |-> {}, raised |-> FALSE]
      [] g.kind = "bad_json" -> [value |-> NoneVal, log |-> {}, raised |-> TRUE]
      [] OTHER -> [value |-> NoneVal, log |-> {"fetch:error"}, raised |-> FALSE]

\* fetch_solidity_files, from the response on: raise_for_status and
\* response.json() inside try / except Exception; the fall-through returns None.
fetch_solidity_files(g) ==
    IF g.kind = "ok"
    THEN [value |-> Some(g.body), log |-> {}, raised |-> FALSE]
    ELSE [value |-> NoneVal, log |-> {"fetch:error"}, raised |-> FALSE]

\* A test `is None` in place of the truth test.
IsNone(x) == x.none

\* `not solidity_content`: None and the empty list are both falsy.
Falsy(x) == x.none \/ Len(x.v) = 0

(***************************************************************************)
(* The generation backend.  chat.completions.create raises, or returns a   *)
(* text: not JSON, JSON that is no object, or an object whose "findings"   *)
(* is a list of dicts.  A dict may lack a required field (None) and may    *)
(* carry a key the model does not declare (extra).                         *)
(***************************************************************************)
Paths(contracts) == {contracts[i].path : i \in 1..Len(contracts)}

\* A finding is about one contract of the prompt: it names its path and
\* describes its content.
RawFindings(contracts) ==
    {[title |-> "F1", description |-> contracts[i].content, severity |-> sv,
      file_path |-> contracts[i].path, extra |-> x] :
        i \in 1..Len(contracts), sv \in {"High", None}, x \in {None, "x"}}

SeqsUpTo(S, n) == UNION {[1..k -> S] : k \in 0..n}

Replies(contracts) ==
    {[kind |-> k, findings |-> <<>>] : k \in {"raise", "not_json", "not_object"}}
    \cup {[kind |-> "object", findings |-> fs] :
            fs \in SeqsUpTo(RawFindings(contracts), MaxFindings)}

\* VulnerabilityFinding(**d): the four declared str fields are required;
\* undeclared keys are dropped.
ValidFinding(d) ==
    /\ d.title # None
    /\ d.description # <<>>
    /\ d.severity # None
    /\ d.file_path # None

VulnerabilityFinding(d) ==
    [title |-> d.title, description |-> d.description,
     severity |-> d.severity, file_path |-> d.file_path]

\* The request audit_files sends: the model and AUDIT_PROMPT with the contracts.
AuditRequest(contracts) == [model |-> "openai_model", contracts |-> contracts]

\* audit_files without its outer except clause: a failed request propagates.
audit_files_unguarded(reply) ==
    IF reply.kind = "raise"
    THEN [findings |-> <<>>, log |-> {}, raised |-> TRUE]
    ELSE [findings |-> <<>>, log |-> {"audit:validation_error"}, raised |-> FALSE]

\* audit_files, from the backend's answer on: what it returns and what it
\* logs.  Every path ends in a return: the inner try catches JSONDecodeError
\* and any validation error, the outer one anything else.
audit_files(reply) ==
    CASE reply.kind = "raise" ->
            [findings |-> <<>>, log |-> {"audit:error"}, raised |-> FALSE]
      [] reply.kind = "not_json" ->
            [findings |-> <<>>, log |-> {"audit:json_error"}, raised |-> FALSE]
      [] reply.kind = "not_object" ->
            [findings |-> <<>>, log |-> {"audit:validation_error"}, raised |-> FALSE]
      [] OTHER ->
            IF \A i \in 1..Len(reply.findings) : ValidFinding(reply.findings[i])
            THEN [findings |-> [i \in 1..Len(reply.findings) |->
                                  VulnerabilityFinding(reply.findings[i])],
                  log |-> {}, raised |-> FALSE]
            ELSE [findings |-> <<>>, log |-> {"audit:validation_error"},
                  raised |-> FALSE]

\* What the state records of a reply: which branch of audit_files it takes.
ReplyKind(reply) ==
    IF reply.kind = "object"
       /\ \E i \in 1..Len(reply.findings) : ~ValidFinding(reply.findings[i])
    THEN "bad_schema"
    ELSE reply.kind

\* model_dump of one finding.
model_dump(f) ==
    [title |-> f.title, description |-> f.description,
     severity |-> f.severity, file_path |-> f.file_path]

\* The payload send_audit_results posts.
Payload(task_id, findings) ==
    [task_id |-> task_id,
     findings |-> [i \in 1..Len(findings) |-> model_dump(findings[i])]]

PostResponses == {"network_error", "http_error", "ok"}

\* send_audit_results with raise_for_status outside the try.
send_audit_results_unguarded(p) ==
    IF p = "http_error"
    THEN [log |-> {}, raised |-> TRUE]
    ELSE [log |-> {"send:error"}, raised |-> FALSE]

\* send_audit_results, from the response on: RequestError, HTTPStatusError
\* and any other exception are logged; the function returns None.
send_audit_results(p) ==
    IF p = "ok"
    THEN [log |-> {"send:success"}, raised |-> FALSE]
    ELSE [log |-> {"send:error"}, raised |-> FALSE]

\* GET /health: no answer yet, and the answer of health_check.
NoHealth == [status |-> 0, body |-> [status |-> None]]
Healthy == [status |-> 200, body |-> [status |-> "healthy"]]

(***************************************************************************)
(* Local mode.  A cloned tree is the list of the .sol files glob finds and *)
(* the set of those that open() or read() fails on.                        *)
(***************************************************************************)
NoRepo == [cloned |-> FALSE, files |-> <<>>, unreadable |-> {}]

RepoFiles == {<<>>, <<"A.sol">>, <<"A.sol", "B.sol">>}

Repos ==
    {rp \in [cloned : {TRUE}, files : RepoFiles,
             unreadable : SUBSET {"A.sol", "B.sol"}] :
        rp.unreadable \subseteq {rp.files[i] : i \in 1..Len(rp.files)}}

\* git.Repo.clone_from raises, or leaves a tree.
CloneResults ==
    {[kind |-> "raise", repo |-> NoRepo]} \cup {[kind |-> "ok", repo |-> rp] : rp \in Repos}

\* What input() gives: a blank line, comma-separated numbers, something
\* int() raises ValueError on, or EOFError.
Inputs ==
    {[kind |-> "blank", idx |-> <<>>],
     [kind |-> "value_error", idx |-> <<>>],
     [kind |-> "eof", idx |-> <<>>]}
    \cup {[kind |-> "ints", idx |-> ix] : ix \in {<<1>>, <<2>>, <<1, 2>>, <<3>>, <<3, 1>>}}

\* The selection loop body: the files at the valid indices, in input order.
Selected(all_files, idx) ==
    LET Valid(i) == 1 <= i /\ i <= Len(all_files)
        valid == SelectSeq(idx, Valid)
    IN [k \in 1..Len(valid) |-> all_files[valid[k]]]

\* The read loop that lets a failed read end find_solidity_contracts.
read_contracts_all_or_nothing(rp, selected) ==
    IF \E i \in 1..Len(selected) : selected[i] \in rp.unreadable
    THEN [value |-> <<>>, log |-> {"read:error"}]
    ELSE [value |-> [k \in 1..Len(selected) |-> File(selected[k], "repo")],
          log |-> {}]

\* The read loop of find_solidity_contracts: a file whose read raises is
\* logged and left out.
read_contracts(rp, selected) ==
    LET Readable(f) == f \notin rp.unreadable
        ok == SelectSeq(selected, Readable)
    IN [value |-> [k \in 1..Len(ok) |-> File(ok[k], "repo")],
        log |-> IF Len(ok) < Len(selected) THEN {"read:error"} ELSE {}]

\* The object audit_files returns.
AuditResponse(findings) == [class |-> "AuditResponse", findings |-> findings]

\* f.write(data) of a text file: data must be a str.
TextIOWrite(data) ==
    IF data.class = "str"
    THEN [raised |-> FALSE, content |-> "written"]
    ELSE [raised |-> TRUE, content |-> "empty"]

\* save_audit_results: open(output_path, 'w') raises, or creates or
\* truncates the file; then f.write(audit).  Any exception is logged and
\* raised again.
save_audit_results(out, op, data) ==
    IF op = "raise"
    THEN [output |-> out, log |-> {"save:error"}, raised |-> TRUE]
    ELSE LET w == TextIOWrite(data)
         IN IF w.raised
            THEN [output |-> w.content, log |-> {"save:error"}, raised |-> TRUE]
            ELSE [output |-> w.content, log |-> {"save:success"}, raised |-> FALSE]

\* The acknowledgement webhook returns.
Ack(n) == [status |-> 200, body |-> [status |-> "processing", task_id |-> n.task_id]]

\* verify_webhook_secret: 401 on a mismatch with a configured secret.
verify_webhook_secret(x_webhook_secret, cfg) ==
    IF ~HasAttr(cfg, "webhook_secret") THEN "AttributeError"
    ELSE IF cfg.webhook_secret # "" /\ x_webhook_secret # cfg.webhook_secret
         THEN "401"
         ELSE "ok"

VARIABLES
    config,            \* app.state.config
    notif,             \* notif[r]: the body of request r
    hdr,               \* hdr[r]: the X-Webhook-Secret header of request r
    resp,              \* resp[r]: the HTTP response to request r
    tasks,             \* tasks[r]: background tasks added for request r
    pc,                \* pc[r]: where the background task of request r stands
    solidity_content,  \* local of process_notification
    audit,             \* local of process_notification
    gets,              \* gets[r]: outbound GETs issued by the task of r
    llm,               \* llm[r]: chat.completions.create calls issued
    posts,             \* posts[r]: outbound POSTs issued
    log,               \* log[r]: warnings, errors and the success line logged
    get_result,        \* how the GET of r ended
    reply_kind,        \* how the backend call of r ended
    post_result,       \* how the POST of r ended
    blocked,           \* the task holding the event loop in a synchronous call (0: none)
    health,            \* the last answer to GET /health
    mode,              \* main's mode argument: "server" or "local"
    only_selected,     \* local: --only-selected-files
    lpc,               \* local: where process_local is
    repo,              \* local: the cloned tree
    prompts,           \* local: how many times input() has returned
    solidity_contracts,\* local: what find_solidity_contracts returned
    local_llm,         \* local: requests sent to the generation backend
    local_audit,       \* local: what audit_files returned
    output,            \* local: the file at output_path
    local_log          \* local: warnings and errors logged

serverVars == <<notif, hdr, resp, tasks, pc, solidity_content, audit,
                gets, llm, posts, log, get_result, reply_kind, post_result,
                blocked, health>>

localVars == <<only_selected, lpc, repo, prompts, solidity_contracts,
               local_llm, local_audit, output, local_log>>

vars == <<config, mode, serverVars, localVars>>

Init ==
    /\ config \in Configs
    /\ notif = [r \in Reqs |-> NoNotification]
    /\ hdr = [r \in Reqs |-> None]
    /\ resp = [r \in Reqs |-> NoResponse]
    /\ tasks = [r \in Reqs |-> 0]
    /\ pc = [r \in Reqs |-> "idle"]
    /\ solidity_content = [r \in Reqs |-> NoneVal]
    /\ audit = [r \in Reqs |-> NoneVal]
    /\ gets = [r \in Reqs |-> <<>>]
    /\ llm = [r \in Reqs |-> <<>>]
    /\ posts = [r \in Reqs |-> <<>>]
    /\ log = [r \in Reqs |-> {}]
    /\ get_result = [r \in Reqs |-> None]
    /\ reply_kind = [r \in Reqs |-> None]
    /\ post_result = [r \in Reqs |-> None]
    /\ blocked = 0
    /\ health = NoHealth
    /\ mode \in {"server", "local"}
    /\ only_selected \in (IF mode = "local" THEN BOOLEAN ELSE {FALSE})
    /\ lpc = IF mode = "local" THEN "start" ELSE "off"
    /\ repo = NoRepo
    /\ prompts = 0
    /\ solidity_contracts = <<>>
    /\ local_llm = <<>>
    /\ local_audit = NoneVal
    /\ output \in (IF mode = "local" THEN {"absent", "old"} ELSE {"absent"})
    /\ local_log = {}

\* The handler awaiting the pipeline itself instead of adding a task.
webhook_inline(r) ==
    /\ mode = "server"
    /\ blocked = 0
    /\ pc[r] = "idle"
    /\ IF r = 1 THEN TRUE ELSE pc[r - 1] # "idle"
    /\ \E h \in Headers : hdr' = [hdr EXCEPT ![r] = h]
    /\ notif' = [notif EXCEPT ![r] = Notification(r)]
    /\ pc' = [pc EXCEPT ![r] = "scheduled"]
    /\ UNCHANGED <<config, resp, tasks, solidity_content, audit, gets, llm,
                   posts, log, get_result, reply_kind, post_result, blocked, health>>
    /\ UNCHANGED <<mode, localVars>>

\* POST /webhook: the handler adds the background task and returns the
\* acknowledgement.  The route declares no dependency: verify_webhook_secret
\* is not called.  Requests are numbered in their order of arrival.
webhook(r) ==
    /\ mode = "server"
    /\ blocked = 0
    /\ pc[r] = "idle"
    /\ IF r = 1 THEN TRUE ELSE pc[r - 1] # "idle"
    /\ \E h \in Headers : hdr' = [hdr EXCEPT ![r] = h]
    /\ notif' = [notif EXCEPT ![r] = Notification(r)]
    /\ tasks' = [tasks EXCEPT ![r] = @ + 1]
    /\ resp' = [resp EXCEPT ![r] = Ack(Notification(r))]
    /\ pc' = [pc EXCEPT ![r] = "scheduled"]
    /\ UNCHANGED <<config, solidity_content, audit, gets, llm, posts, log,
                   get_result, reply_kind, post_result, blocked, health>>
    /\ UNCHANGED <<mode, localVars>>

\* process_notification without its try: the exception leaves the task.
on_exception_escapes(r, lg) ==
    /\ pc' = [pc EXCEPT ![r] = "crashed"]
    /\ log' = [log EXCEPT ![r] = @ \cup lg]

\* The except clause of process_notification: log the error, return.
\* lg: what the task logged earlier in the same step.
on_exception(r, lg) ==
    /\ pc' = [pc EXCEPT ![r] = "done"]
    /\ log' = [log EXCEPT ![r] = @ \cup lg \cup {"process:error"}]

\* The background task starts after the response has been sent: the request
\* and its headers are over.  The task runs up to the GET
\* of fetch_solidity_files.  Building the request reads
\* config.agent4rena_api_key inside the try: without the attribute the
\* AttributeError is logged, fetch returns None and the task ends.
process_notification(r) ==
    /\ blocked = 0
    /\ pc[r] = "scheduled"
    /\ IF HasAttr(config, "agent4rena_api_key")
       THEN /\ gets' = [gets EXCEPT ![r] =
                          Append(@, [url |-> notif[r].get_contracts_url])]
            /\ pc' = [pc EXCEPT ![r] = "fetch_wait"]
            /\ UNCHANGED log
       ELSE /\ log' = [log EXCEPT ![r] = @ \cup {"fetch:error", "process:warning"}]
            /\ pc' = [pc EXCEPT ![r] = "done"]
            /\ UNCHANGED gets
    /\ hdr' = [hdr EXCEPT ![r] = None]
    /\ UNCHANGED <<config, notif, resp, tasks, solidity_content, audit,
                   llm, posts, get_result, reply_kind, post_result, blocked, health>>
    /\ UNCHANGED <<mode, localVars>>

\* An auditor that sends a Search and an Evaluate request.
audit_files_call_twice(r, contracts) ==
    /\ llm' = [llm EXCEPT ![r] =
                 Append(Append(@, AuditRequest(contracts)), AuditRequest(contracts))]
    /\ blocked' = r
    /\ pc' = [pc EXCEPT ![r] = "audit_wait"]

\* audit_files up to its request: one chat.completions.create call.  It is
\* synchronous, so the task keeps the event loop until the backend answers.
audit_files_call(r, contracts) ==
    /\ llm' = [llm EXCEPT ![r] = Append(@, AuditRequest(contracts))]
    /\ blocked' = r
    /\ pc' = [pc EXCEPT ![r] = "audit_wait"]

\* The GET completes: fetch_solidity_files returns, process_notification
\* tests the result, builds the auditor and calls audit_files.
fetch_return(r) ==
    /\ blocked = 0
    /\ pc[r] = "fetch_wait"
    /\ \E g \in GetResponses(notif[r].get_contracts_url) :
         LET got == fetch_solidity_files(g) IN
         /\ get_result' = [get_result EXCEPT ![r] = g.kind]
         /\ IF got.raised
            THEN /\ on_exception(r, got.log)
                 /\ UNCHANGED <<solidity_content, llm, blocked>>
            ELSE /\ solidity_content' = [solidity_content EXCEPT ![r] = got.value]
                 /\ IF Falsy(got.value)
                    THEN /\ log' = [log EXCEPT ![r] =
                                      @ \cup got.log \cup {"process:warning"}]
                         /\ pc' = [pc EXCEPT ![r] = "done"]
                         /\ UNCHANGED <<llm, blocked>>
                    ELSE \E ctor \in {"ok", "raise"} :
                           IF ctor = "raise"
                           THEN on_exception(r, got.log) /\ UNCHANGED <<llm, blocked>>
                           ELSE audit_files_call(r, got.value.v) /\ UNCHANGED log
    /\ UNCHANGED <<config, notif, hdr, resp, tasks, audit, gets, posts,
                   reply_kind, post_result, health>>
    /\ UNCHANGED <<mode, localVars>>

\* A reporter that posts nothing when there are no findings.
send_audit_results_call_skip_empty(r, findings, lg) ==
    IF findings # <<>>
    THEN /\ posts' = [posts EXCEPT ![r] =
                        Append(@, [url |-> notif[r].post_findings_url,
                                   json |-> Payload(notif[r].task_id, findings)])]
         /\ pc' = [pc EXCEPT ![r] = "post_wait"]
         /\ log' = [log EXCEPT ![r] = @ \cup lg]
    ELSE /\ log' = [log EXCEPT ![r] = @ \cup lg]
         /\ pc' = [pc EXCEPT ![r] = "done"]
         /\ UNCHANGED posts

\* send_audit_results addressing the notification received last, as if the
\* notification were kept in one module-level variable.
send_audit_results_call_last_notification(r, findings, lg) ==
    LET last == CHOOSE q \in Reqs :
                   pc[q] # "idle" /\ \A k \in Reqs : pc[k] # "idle" => k <= q
    IN IF HasAttr(config, "agent4rena_api_key")
       THEN /\ posts' = [posts EXCEPT ![r] =
                           Append(@, [url |-> notif[last].post_findings_url,
                                      json |-> Payload(notif[last].task_id, findings)])]
            /\ pc' = [pc EXCEPT ![r] = "post_wait"]
            /\ log' = [log EXCEPT ![r] = @ \cup lg]
       ELSE /\ log' = [log EXCEPT ![r] = @ \cup lg \cup {"send:error"}]
            /\ pc' = [pc EXCEPT ![r] = "done"]
            /\ UNCHANGED posts

\* send_audit_results up to its POST.  The headers read
\* app.state.config.agent4rena_api_key inside the try.
send_audit_results_call(r, findings, lg) ==
    IF HasAttr(config, "agent4rena_api_key")
    THEN /\ posts' = [posts EXCEPT ![r] =
                        Append(@, [url |-> notif[r].post_findings_url,
                                   json |-> Payload(notif[r].task_id, findings)])]
         /\ pc' = [pc EXCEPT ![r] = "post_wait"]
         /\ log' = [log EXCEPT ![r] = @ \cup lg]
    ELSE /\ log' = [log EXCEPT ![r] = @ \cup lg \cup {"send:error"}]
         /\ pc' = [pc EXCEPT ![r] = "done"]
         /\ UNCHANGED posts

\* The backend answers: audit_files returns, send_audit_results is called.
audit_return(r) ==
    /\ blocked = r
    /\ pc[r] = "audit_wait"
    /\ \E reply \in Replies(llm[r][Len(llm[r])].contracts) :
         LET res == audit_files(reply) IN
         /\ reply_kind' = [reply_kind EXCEPT ![r] = ReplyKind(reply)]
         /\ IF res.raised
            THEN on_exception(r, res.log) /\ UNCHANGED <<audit, posts>>
            ELSE /\ audit' = [audit EXCEPT ![r] = Some(res.findings)]
                 /\ send_audit_results_call(r, res.findings, res.log)
    /\ blocked' = 0
    /\ UNCHANGED <<config, notif, hdr, resp, tasks, solidity_content, gets,
                   llm, get_result, post_result, health>>
    /\ UNCHANGED <<mode, localVars>>

\* The POST completes: send_audit_results logs the outcome and returns;
\* process_notification returns.
\* send_audit_results posting once more after a network error.
send_return_retry(r) ==
    /\ blocked = 0
    /\ pc[r] = "post_wait"
    /\ \E p \in PostResponses :
         LET res == send_audit_results(p) IN
         /\ post_result' = [post_result EXCEPT ![r] = p]
         /\ IF p = "network_error" /\ Len(posts[r]) < 2
            THEN /\ posts' = [posts EXCEPT ![r] = Append(@, @[1])]
                 /\ UNCHANGED <<log, pc>>
            ELSE /\ log' = [log EXCEPT ![r] = @ \cup res.log]
                 /\ pc' = [pc EXCEPT ![r] = "done"]
                 /\ UNCHANGED posts
    /\ UNCHANGED <<config, notif, hdr, resp, tasks, solidity_content, audit,
                   gets, llm, get_result, reply_kind, blocked, health>>
    /\ UNCHANGED <<mode, localVars>>

\* send_audit_results waiting, after a network error, for a retry that
\* nothing starts.
send_return_backoff(r) ==
    /\ blocked = 0
    /\ pc[r] = "post_wait"
    /\ \E p \in PostResponses :
         LET res == send_audit_results(p) IN
         /\ post_result' = [post_result EXCEPT ![r] = p]
         /\ IF p = "network_error"
            THEN /\ pc' = [pc EXCEPT ![r] = "backoff"]
                 /\ UNCHANGED log
            ELSE /\ log' = [log EXCEPT ![r] = @ \cup res.log]
                 /\ pc' = [pc EXCEPT ![r] = "done"]
    /\ UNCHANGED <<config, notif, hdr, resp, tasks, solidity_content, audit,
                   gets, llm, posts, get_result, reply_kind, blocked, health>>
    /\ UNCHANGED <<mode, localVars>>

send_return(r) ==
    /\ blocked = 0
    /\ pc[r] = "post_wait"
    /\ \E p \in PostResponses :
         LET res == send_audit_results(p) IN
         /\ post_result' = [post_result EXCEPT ![r] = p]
         /\ IF res.raised
            THEN on_exception(r, res.log)
            ELSE /\ log' = [log EXCEPT ![r] = @ \cup res.log]
                 /\ pc' = [pc EXCEPT ![r] = "done"]
    /\ UNCHANGED <<config, notif, hdr, resp, tasks, solidity_content, audit,
                   gets, llm, posts, get_result, reply_kind, blocked, health>>
    /\ UNCHANGED <<mode, localVars>>

\* A probe that reports the state of the sessions.
health_check_of_sessions ==
    /\ mode = "server"
    /\ blocked = 0
    /\ health' = IF \E r \in Reqs : "process:error" \in log[r] \/ pc[r] = "post_wait"
                 THEN [status |-> 503, body |-> [status |-> "unhealthy"]]
                 ELSE Healthy
    /\ UNCHANGED <<config, notif, hdr, resp, tasks, pc, solidity_content, audit,
                   gets, llm, posts, log, get_result, reply_kind, post_result,
                   blocked>>
    /\ UNCHANGED <<mode, localVars>>

\* GET /health: the handler reads nothing and returns {"status": "healthy"}.
\* It is a coroutine of the event loop: it runs when no task holds the loop.
health_check ==
    /\ mode = "server"
    /\ blocked = 0
    /\ health' = Healthy
    /\ UNCHANGED <<config, notif, hdr, resp, tasks, pc, solidity_content, audit,
                   gets, llm, posts, log, get_result, reply_kind, post_result,
                   blocked>>
    /\ UNCHANGED <<mode, localVars>>

(***************************************************************************)
(* Local mode: process_local runs from main, one step per external wait    *)
(* (the clone, each input(), the backend).                                 *)
(***************************************************************************)

\* The except clause of process_local: log, raise again.
process_local_except(lg) ==
    /\ local_log' = local_log \cup lg \cup {"local:error"}
    /\ lpc' = "raised"

\* process_local after find_solidity_contracts, auditing whatever it got.
process_local_found_no_check(contracts, lg) ==
    /\ solidity_contracts' = contracts
    /\ local_llm' = Append(local_llm, AuditRequest(contracts))
    /\ local_log' = local_log \cup lg
    /\ lpc' = "audit_wait"

\* process_local from the return of find_solidity_contracts to the call of
\* the backend: nothing found is a warning and a return; the auditor's
\* constructor may raise.
process_local_found(contracts, lg) ==
    /\ solidity_contracts' = contracts
    /\ IF contracts = <<>>
       THEN /\ local_log' = local_log \cup lg \cup {"local:warning"}
            /\ lpc' = "returned"
            /\ UNCHANGED local_llm
       ELSE \E ctor \in {"ok", "raise"} :
               IF ctor = "raise"
               THEN process_local_except(lg) /\ UNCHANGED local_llm
               ELSE /\ local_llm' = Append(local_llm, AuditRequest(contracts))
                    /\ local_log' = local_log \cup lg
                    /\ lpc' = "audit_wait"

\* process_local from its start: the clone, the glob, and either the first
\* prompt or (no selection, or nothing to select from) the reads.
process_local ==
    /\ mode = "local"
    /\ lpc = "start"
    /\ \E c \in CloneResults :
         IF c.kind = "raise"
         THEN /\ process_local_except({})
              /\ UNCHANGED <<repo, solidity_contracts, local_llm>>
         ELSE /\ repo' = c.repo
              /\ IF only_selected /\ c.repo.files # <<>>
                 THEN /\ lpc' = "prompt"
                      /\ UNCHANGED <<solidity_contracts, local_llm, local_log>>
                 ELSE LET rd == read_contracts(c.repo, c.repo.files)
                      IN process_local_found(rd.value,
                            rd.log \cup (IF only_selected
                                         THEN {"select:warning"} ELSE {}))
    /\ UNCHANGED <<config, mode, serverVars, only_selected, prompts,
                   local_audit, output>>

\* One turn of the loop of select_files_interactively: input() returns.
select_files_interactively ==
    /\ lpc = "prompt"
    /\ prompts < MaxPrompts
    /\ prompts' = prompts + 1
    /\ \E inp \in Inputs :
         LET sel == Selected(repo.files, inp.idx)
             rd == read_contracts(repo, sel)
         IN CASE inp.kind = "blank" ->
                    process_local_found(<<>>, {"select:warning"})
              [] inp.kind = "eof" ->
                    process_local_except({})
                    /\ UNCHANGED <<solidity_contracts, local_llm>>
              [] inp.kind = "ints" /\ sel # <<>> ->
                    process_local_found(rd.value, rd.log)
              [] OTHER ->
                    UNCHANGED <<lpc, solidity_contracts, local_llm, local_log>>
    /\ UNCHANGED <<config, mode, serverVars, only_selected, repo,
                   local_audit, output>>

\* The backend answers in local mode: audit_files returns and
\* save_audit_results is called with what it returned.
local_audit_return ==
    /\ lpc = "audit_wait"
    /\ \E reply \in Replies(local_llm[Len(local_llm)].contracts),
          op \in {"ok", "raise"} :
         LET res == audit_files(reply)
             sv == save_audit_results(output, op, AuditResponse(res.findings))
         IN IF res.raised
            THEN process_local_except(res.log) /\ UNCHANGED <<local_audit, output>>
            ELSE /\ local_audit' = Some(res.findings)
                 /\ output' = sv.output
                 /\ IF sv.raised
                    THEN process_local_except(res.log \cup sv.log)
                    ELSE /\ local_log' = local_log \cup res.log \cup sv.log
                         /\ lpc' = "returned"
    /\ UNCHANGED <<config, mode, serverVars, only_selected, repo, prompts,
                   solidity_contracts, local_llm>>

Next ==
    \/ \E r \in Reqs :
          \/ webhook(r)
          \/ process_notification(r)
          \/ fetch_return(r)
          \/ audit_return(r)
          \/ send_return(r)
    \/ health_check
    \/ process_local
    \/ select_files_interactively
    \/ local_audit_return

Spec == Init /\ [][Next]_vars

\* A step of a background task: its start, or the return of the external
\* call it waits for (the GET, the backend request, the POST).
TaskStep ==
    \E r \in Reqs :
       \/ process_notification(r)
       \/ fetch_return(r)
       \/ audit_return(r)
       \/ send_return(r)

\* The event loop keeps running the tasks, and the external calls return or
\* fail: while some task can take a step, some task takes one.
\* The server and its tasks alone: the health probe and local mode have no
\* part in a session.
SessionNext == (\E r \in Reqs : webhook(r)) \/ TaskStep

FairSpec == Init /\ [][SessionNext]_vars /\ WF_vars(TaskStep)

(***************************************************************************)
(* Properties.                                                             *)
(***************************************************************************)
Received(r) == pc[r] # "idle"

\* The task of r has left fetch_solidity_files.
FetchReturned(r) == pc[r] \in {"audit_wait", "post_wait", "done", "crashed"}

\* audit_files has returned to the task of r.
AuditReturned(r) == ~audit[r].none

\* C1: every received notification is answered {"status": "processing",
\* "task_id": its task_id} by the handler itself, which adds exactly one
\* background task; no step of the pipeline (fetch, audit, report) is taken,
\* let alone completed, for a request that has no acknowledgement yet.
C1_AckBeforePipeline ==
    \A r \in Reqs :
       /\ Received(r) =>
             /\ resp[r] = [status |-> 200,
                           body |-> [status |-> "processing",
                                     task_id |-> notif[r].task_id]]
             /\ tasks[r] = 1
       /\ resp[r] = NoResponse =>
             /\ gets[r] = <<>> /\ llm[r] = <<>> /\ posts[r] = <<>>
             /\ tasks[r] = 0

\* C1 witness: a request is acknowledged while its task has not started and
\* an earlier session is still waiting for its GET.
C1_Witness ==
    \E r, q \in Reqs :
       /\ resp[r].status = 200 /\ resp[r].body.task_id = Notification(r).task_id
       /\ pc[r] = "scheduled" /\ gets[r] = <<>>
       /\ pc[q] = "fetch_wait"

\* The secret is configured: config.webhook_secret is truthy.
SecretConfigured ==
    HasAttr(config, "webhook_secret") /\ config.webhook_secret \notin {"", None}

\* C2 (as claimed): with a secret configured, a request whose
\* X-Webhook-Secret differs from it is answered 401 and gets no background
\* task and no fetch, audit or report step.
C2_BadSecretRejected ==
    \A r \in Reqs :
       (/\ Received(r)
        /\ SecretConfigured
        /\ verify_webhook_secret(hdr[r], config) = "401")
       => /\ resp[r].status = 401
          /\ tasks[r] = 0
          /\ gets[r] = <<>> /\ llm[r] = <<>> /\ posts[r] = <<>>

\* No collaborator failed the finished session of r: its GET, if one was
\* sent, returned files, and the auditor could be built.
NothingFailed(r) ==
    /\ pc[r] = "done"
    /\ get_result[r] \in {None, "ok"}
    /\ get_result[r] = "ok" => solidity_content[r].v # <<>>
    /\ "process:error" \notin log[r]

\* C3 (as claimed): a session whose contracts URL serves the files ends with
\* exactly one POST, to the notification's post_findings_url, carrying the
\* notification's task_id and exactly the findings of the audit.
C3_OnePostWithAuditFindings ==
    \A r \in Reqs :
       NothingFailed(r) =>
          /\ Len(posts[r]) = 1
          /\ posts[r][1].url = notif[r].post_findings_url
          /\ posts[r][1].json.task_id = notif[r].task_id
          /\ AuditReturned(r)
          /\ posts[r][1].json.findings = audit[r].v

\* C4: once the fetch has returned None (source unreachable, error status,
\* unparsable body) or an empty list, the session is over: a warning is
\* logged, the backend was never called and no POST was sent.
C4_NothingFetchedEndsSession ==
    \A r \in Reqs :
       (FetchReturned(r) /\ (solidity_content[r].none \/ solidity_content[r].v = <<>>))
       => /\ pc[r] = "done"
          /\ "process:warning" \in log[r]
          /\ llm[r] = <<>>
          /\ posts[r] = <<>>
          /\ ~AuditReturned(r)

\* C4 witness: one session ended on an unreachable source, another on an
\* empty list.
C4_Witness ==
    \E r, q \in Reqs :
       /\ pc[r] = "done" /\ get_result[r] = "network_error"
       /\ pc[q] = "done" /\ get_result[q] = "ok" /\ solidity_content[q].v = <<>>

C7_BackendRaiseGivesEmptyAudit ==
    \A r \in Reqs :
       reply_kind[r] = "raise" =>
          /\ AuditReturned(r) /\ audit[r].v = <<>>
          /\ "audit:error" \in log[r]
          /\ "process:error" \notin log[r]
          /\ pc[r] \in {"post_wait", "done"}

\* C7 witness: a session whose backend call raised is past the audit.
C7_Witness ==
    \E r \in Reqs : reply_kind[r] = "raise" /\ pc[r] = "post_wait"

\* C8: when the backend's text is not JSON, is JSON that is no object, or
\* fails the schema, the audit is an empty findings list and the callback
\* POST is sent with that empty list and the notification's task_id.
C8_BadResponseStillReported ==
    \A r \in Reqs :
       reply_kind[r] \in {"not_json", "not_object", "bad_schema"} =>
          /\ AuditReturned(r) /\ audit[r].v = <<>>
          /\ Len(posts[r]) = 1
          /\ posts[r][1].json = [task_id |-> notif[r].task_id, findings |-> <<>>]
          /\ posts[r][1].url = notif[r].post_findings_url
          /\ pc[r] \in {"post_wait", "done"}

\* C8 witness: a session finished after an unparsable answer and another
\* after a schema mismatch.
C8_Witness ==
    \E r, q \in Reqs :
       /\ reply_kind[r] = "not_json" /\ pc[r] = "done"
       /\ reply_kind[q] = "bad_schema" /\ pc[q] = "done"

\* C9: a session sends at most one POST; when the POST failed (network
\* error or error status) send_audit_results logged the failure and
\* returned: the session is done and nothing reached the except clause of
\* process_notification.
C9_DeliveryFailureLoggedOnly ==
    \A r \in Reqs :
       /\ Len(posts[r]) <= 1
       /\ post_result[r] \in {"network_error", "http_error"} =>
             /\ pc[r] = "done"
             /\ "send:error" \in log[r]
             /\ "send:success" \notin log[r]
             /\ "process:error" \notin log[r]
             /\ Len(posts[r]) = 1

\* C9 witness: one session met a network error, another an error status.
C9_Witness ==
    \E r, q \in Reqs :
       /\ post_result[r] = "network_error" /\ pc[r] = "done"
       /\ post_result[q] = "http_error" /\ pc[q] = "done"

\* C10: no exception leaves a background task: a task is never left
\* crashed, an exception that reached process_notification's except clause
\* was logged and ended the task normally, and the event loop is released.
C10_NoFailureEscapes ==
    /\ \A r \in Reqs :
          /\ pc[r] # "crashed"
          /\ "process:error" \in log[r] => pc[r] = "done"
          /\ pc[r] = "done" => blocked # r
    /\ blocked # 0 => pc[blocked] = "audit_wait"

\* C10 witness: a session ended in the except clause of process_notification
\* and a later request was still accepted and is being served.
C10_Witness ==
    \E r, q \in Reqs :
       /\ r < q
       /\ "process:error" \in log[r] /\ pc[r] = "done"
       /\ resp[q].status = 200 /\ pc[q] \in {"fetch_wait", "audit_wait", "post_wait"}

\* C11: GET /health answers 200 {"status": "healthy"} whatever the sessions
\* are doing: every answer the probe has given is that one, whether sessions
\* are pending, fetching, auditing, reporting or have failed.
C11_HealthAlwaysHealthy ==
    health # NoHealth => health = Healthy

\* C11 witness: the probe was answered healthy with one session failed and
\* another one waiting for its report to be delivered.
C11_Witness ==
    /\ health = Healthy
    /\ \E r, q \in Reqs :
          /\ "process:error" \in log[r] /\ pc[r] = "done"
          /\ pc[q] = "post_wait"

\* C12: every outbound wait is a suspension point: while a session waits on
\* the generation backend the event loop can still answer a health request
\* and accept a new webhook, and another session's fetch or report can
\* return.
C12_BackendWaitSuspends ==
    \A r \in Reqs :
       pc[r] = "audit_wait" =>
          /\ ENABLED health_check
          /\ \A q \in Reqs :
                /\ pc[q] = "idle" /\ (q = 1 \/ pc[q - 1] # "idle") => ENABLED webhook(q)
                /\ pc[q] = "fetch_wait" => ENABLED fetch_return(q)
                /\ pc[q] = "post_wait" => ENABLED send_return(q)

\* C13: sessions are isolated.  Whatever the other sessions do, a session
\* fetches from its own get_contracts_url, sends the backend exactly the
\* contracts it fetched from there, and posts to its own post_findings_url
\* a payload with its own task_id whose findings are about the contracts
\* fetched from its own get_contracts_url; the configuration, the one thing
\* the sessions share, is never written.
C13_OwnContracts(r) ==
    /\ \A i \in 1..Len(gets[r]) : gets[r][i].url = Notification(r).get_contracts_url
    /\ \A i \in 1..Len(solidity_content[r].v) :
          solidity_content[r].v[i].content[2] = Notification(r).get_contracts_url
    /\ \A i \in 1..Len(llm[r]) : llm[r][i].contracts = solidity_content[r].v

C13_OwnCallback(r) ==
    \A i \in 1..Len(posts[r]) :
       /\ posts[r][i].url = Notification(r).post_findings_url
       /\ posts[r][i].json.task_id = Notification(r).task_id
       /\ \A k \in 1..Len(posts[r][i].json.findings) :
             LET f == posts[r][i].json.findings[k]
             IN /\ f.file_path \in Paths(solidity_content[r].v)
                /\ f.description[2] = Notification(r).get_contracts_url

C13_SessionsIsolated ==
    /\ [](\A r \in Reqs : C13_OwnContracts(r) /\ C13_OwnCallback(r))
    /\ [][config' = config]_vars

\* C13 witness: two sessions have both posted findings, each about its own
\* contracts.
C13_Witness ==
    \E r, q \in Reqs :
       /\ r # q
       /\ Len(posts[r]) = 1 /\ Len(posts[r][1].json.findings) > 0
       /\ Len(posts[q]) = 1 /\ Len(posts[q][1].json.findings) > 0

\* The files of the cloned tree that can be read.
ReadableFiles == {repo.files[i] : i \in 1..Len(repo.files)} \ repo.unreadable

\* C14 as stated: when the fetch fails for one of two files the audit runs
\* on the other one and the callback is sent.
C14_PartialFetchStillReported ==
    (/\ Len(repo.files) = 2
     /\ Cardinality(repo.unreadable) = 1
     /\ ~local_audit.none)
    => /\ Paths(local_llm[1].contracts) = ReadableFiles
       /\ \E r \in Reqs : posts[r] # <<>>

\* C14, amended: a fetch can fail for one file only in local mode, where a
\* file whose read fails is left out: the backend is never sent such a file,
\* and the contracts passed on are exactly the readable ones.  No callback is
\* sent in local mode.  In server mode the fetch is one GET for the whole
\* list: if it fails there is no audit and no callback.
C14_UnreadableFileSkippedLocally ==
    /\ \A i \in 1..Len(local_llm) :
          /\ Paths(local_llm[i].contracts) \cap repo.unreadable = {}
          /\ local_llm[i].contracts = solidity_contracts
    /\ (repo.cloned /\ ~only_selected) =>
          /\ Paths(solidity_contracts) = ReadableFiles
          /\ repo.unreadable # {} => "read:error" \in local_log
    /\ mode = "local" => \A r \in Reqs : gets[r] = <<>> /\ posts[r] = <<>>
    /\ \A r \in Reqs :
          get_result[r] \in {"network_error", "http_error", "bad_json"} =>
             llm[r] = <<>> /\ posts[r] = <<>>

\* C14 witness: of two files one could not be read, and the audit ran on
\* the other one.
C14_Witness ==
    /\ repo.files = <<"A.sol", "B.sol">>
    /\ repo.unreadable = {"B.sol"}
    /\ ~local_audit.none
    /\ Paths(local_llm[1].contracts) = {"A.sol"}

\* C16: fetch_solidity_files never raises.  An error status, a network
\* error, a body that is not JSON, and a failure while the request is built
\* (the configuration has no agent4rena_api_key) are logged and give None,
\* so the task ends with its warning and never in the except clause of
\* process_notification; the parsed body is returned only for a 2xx answer.
C16_FetchNeverRaises ==
    /\ \A r \in Reqs :
          /\ get_result[r] \in {"network_error", "http_error", "bad_json"} =>
                /\ solidity_content[r].none
                /\ "fetch:error" \in log[r]
                /\ "process:error" \notin log[r]
                /\ pc[r] = "done"
          /\ ~solidity_content[r].none =>
                /\ get_result[r] = "ok"
                /\ solidity_content[r].v \in Bodies(Notification(r).get_contracts_url)
          /\ (pc[r] \notin {"idle", "scheduled"}
              /\ ~HasAttr(config, "agent4rena_api_key")) =>
                /\ gets[r] = <<>>
                /\ solidity_content[r].none
                /\ "fetch:error" \in log[r]
                /\ "process:error" \notin log[r]
    /\ \A r \in Reqs :
          \A g \in GetResponses(Notification(r).get_contracts_url) :
             /\ ~fetch_solidity_files(g).raised
             /\ fetch_solidity_files(g).value =
                   IF g.kind = "ok" THEN Some(g.body) ELSE NoneVal

\* C16 witness: one fetch got a body that is not JSON, another an error
\* status, and both tasks are over.
C16_Witness ==
    \E r, q \in Reqs :
       /\ get_result[r] = "bad_json" /\ pc[r] = "done"
       /\ get_result[q] = "http_error" /\ pc[q] = "done"

\* C17: in local mode a run that fails is logged and raised again, and a
\* run in which contracts were found and the output file could be opened
\* ends successfully with the audit result written to it.
C17_LocalRunSavesOrFails ==
    /\ lpc = "raised" => "local:error" \in local_log
    /\ (~local_audit.none /\ output \notin {"absent", "old"}) =>
          /\ output = "written"
          /\ lpc = "returned"

\* C18: within a session the steps happen at most once each and in the order
\* fetch, audit, report: there is at most one GET, one backend request and
\* one POST; the backend request follows a fetch that returned a non-empty
\* list; the POST follows the return of the audit; and once a later step has
\* started no earlier step starts again, nothing at all after the POST.
C18_StepOrder(r) ==
    /\ Len(gets[r]) <= 1 /\ Len(llm[r]) <= 1 /\ Len(posts[r]) <= 1
    /\ llm[r] # <<>> =>
          /\ gets[r] # <<>>
          /\ get_result[r] = "ok"
          /\ ~Falsy(solidity_content[r])
    /\ posts[r] # <<>> =>
          /\ llm[r] # <<>>
          /\ AuditReturned(r)
          /\ reply_kind[r] # None

C18_NoStepAgain(r) ==
    /\ llm[r] # <<>> => gets'[r] = gets[r]
    /\ posts[r] # <<>> =>
          gets'[r] = gets[r] /\ llm'[r] = llm[r] /\ posts'[r] = posts[r]

C18_FetchAuditReportOnce ==
    /\ [](\A r \in Reqs : C18_StepOrder(r))
    /\ [][\A r \in Reqs : C18_NoStepAgain(r)]_vars

\* C18 witness: a session went through the three steps and its POST failed
\* with a network error; the session is over.
C18_Witness ==
    \E r \in Reqs :
       /\ Len(gets[r]) = 1 /\ Len(llm[r]) = 1 /\ Len(posts[r]) = 1
       /\ post_result[r] = "network_error"
       /\ pc[r] = "done"

\* The three ways process_notification ends.
NothingFetched(r) == "process:warning" \in log[r]

ResultsDelivered(r) == "send:success" \in log[r]

FailureLogged(r) == "process:error" \in log[r] \/ "send:error" \in log[r]

\* C19: every scheduled session terminates when every external call returns
\* or fails, and it ends in exactly one of the outcomes nothing fetched,
\* results delivered, failure logged.
C19_SessionTerminates ==
    /\ \A r \in Reqs : (pc[r] = "scheduled") ~> (pc[r] = "done")
    /\ [](\A r \in Reqs :
            pc[r] = "done" =>
               /\ NothingFetched(r) \/ ResultsDelivered(r) \/ FailureLogged(r)
               /\ ~(NothingFetched(r) /\ ResultsDelivered(r))
               /\ ~(NothingFetched(r) /\ FailureLogged(r))
               /\ ~(ResultsDelivered(r) /\ FailureLogged(r)))

\* C19 witness: all sessions are over, one with each outcome that the
\* bound on the requests allows at once.
C19_Witness ==
    /\ \A r \in Reqs : pc[r] = "done"
    /\ \E r, q \in Reqs :
          /\ r # q
          /\ FailureLogged(r) /\ post_result[r] = "http_error"
          /\ NothingFetched(q)

\* C20: in local mode, when find_solidity_contracts returns nothing (no .sol
\* file, no file that can be read, or nothing selected) process_local
\* returns normally, the backend has not been called and the output file is
\* as it was; a file that cannot be read is left out and the files that can
\* be read are sent to the backend.
C20_NothingFoundTouchesNothing ==
    /\ (/\ solidity_contracts = <<>>
        /\ \/ repo.cloned /\ ~only_selected
           \/ "select:warning" \in local_log
           \/ "read:error" \in local_log)
       => /\ lpc = "returned"
          /\ "local:warning" \in local_log
          /\ "local:error" \notin local_log
          /\ local_llm = <<>>
          /\ local_audit.none
          /\ output \in {"absent", "old"}
    /\ ("read:error" \in local_log /\ solidity_contracts # <<>>) =>
          /\ Paths(solidity_contracts) \cap repo.unreadable = {}
          /\ \/ Len(local_llm) = 1 /\ local_llm[1].contracts = solidity_contracts
             \/ lpc = "raised" /\ local_llm = <<>> /\ local_audit.none

\* C20 witness: the user was asked twice and then selected nothing, with a
\* file already at the output path; the run returned.
C20_Witness ==
    /\ only_selected
    /\ prompts = MaxPrompts
    /\ "select:warning" \in local_log
    /\ lpc = "returned"
    /\ output = "old"

====
